---- MODULE Spec2Model ----
(***************************************************************************)
(* Model of monitoring/zabbix_webcheck.py: one reconciliation pass of the  *)
(* zabbix_webcheck module (main) against a Zabbix server, and the pure     *)
(* step functions of class WebCheck.                                       *)
(*                                                                         *)
(* Python dicts are functions whose DOMAIN is the set of keys that are     *)
(* present.  Python None is the string None below; for a list argument     *)
(* None and [] are both the empty sequence, since the code only tests the  *)
(* truth value of such a list.  Remote identifiers are positive integers   *)
(* and NoId (0) is "no identifier" (None).                                 *)
(***************************************************************************)
EXTENDS Integers, Sequences, FiniteSets, TLC

\* ------------------------------------------------------------------ bounds
\* number of passes run one after the other
MaxPasses == 2
\* longest caller-supplied step list
MaxSteps == 2
\* longest step list of the pure-function specification
MaxFnSteps == 2

\* --------------------------------------------------------------- constants
None == "<None>"
NoId == 0
Procs == 1..MaxPasses

\* truth value of a Python string-or-None
Truthy(v) == v \notin {"", None}

\* ------------------------------------------------------------ pure helpers
Range(s) == {s[i] : i \in DOMAIN s}

\* dict(a, **b)
DictMerge(a, b) ==
  [k \in (DOMAIN a) \cup (DOMAIN b) |-> IF k \in DOMAIN b THEN b[k] ELSE a[k]]

EmptyDict == [k \in {} |-> None]

\* WebCheck.get_value_by_key, for string-valued keys
get_value_by_key(dict_obj, key) ==
  IF key \in DOMAIN dict_obj THEN dict_obj[key] ELSE None

\* WebCheck._scenario_step_optional_properties_list
scenario_step_optional_properties_list == <<"posts", "required", "status_codes", "timeout">>

\* WebCheck._web_scenario_optional_properties_list
web_scenario_optional_properties_list ==
  <<"agent", "authentication", "delay", "http_password", "http_user", "macros", "status">>

\* variant of CopyOptional without the "is not None" test: every whitelisted
\* key of the dict is copied
CopyOptional_KeepNone(dict_obj, props, i) ==
  [k \in {props[j] : j \in i..Len(props)} \cap DOMAIN dict_obj |-> dict_obj[k]]

\* the loop that copies the whitelisted properties with a non-None value
RECURSIVE CopyOptional(_, _, _)
CopyOptional(dict_obj, props, i) ==
  IF i > Len(props) THEN EmptyDict
  ELSE LET value == get_value_by_key(dict_obj, props[i])
           rest  == CopyOptional(dict_obj, props, i + 1)
       IN  IF value # None THEN DictMerge([k \in {props[i]} |-> value], rest)
           ELSE rest

\* one iteration of the loop of get_steps: the failure message, or "" when
\* the step is accepted
StepError(web_check_step) ==
  IF ~("name" \in DOMAIN web_check_step /\ Truthy(web_check_step["name"]))
    THEN "The \"name\" property in scenario steps is required and not null."
  ELSE IF ~("url" \in DOMAIN web_check_step /\ Truthy(web_check_step["url"]))
    THEN "The \"url\" property in scenario steps is required and not null."
  ELSE IF ~("number" \in DOMAIN web_check_step /\ Truthy(web_check_step["number"]))
    THEN "The \"no\" property in scenario steps is required and not null."
  ELSE ""

NormalizeStep(web_check_step) ==
  DictMerge([name |-> web_check_step["name"],
             url  |-> web_check_step["url"],
             no   |-> web_check_step["number"]],
            CopyOptional(web_check_step, scenario_step_optional_properties_list, 1))

\* WebCheck.get_steps: [failed, msg, steps]; fail_json ends the pass at the
\* first step that is not accepted
RECURSIVE get_steps_loop(_, _, _)
get_steps_loop(web_check_steps, i, steps) ==
  IF i > Len(web_check_steps) THEN [failed |-> FALSE, msg |-> "", steps |-> steps]
  ELSE IF StepError(web_check_steps[i]) # ""
    THEN [failed |-> TRUE, msg |-> StepError(web_check_steps[i]), steps |-> <<>>]
  ELSE get_steps_loop(web_check_steps, i + 1,
                      Append(steps, NormalizeStep(web_check_steps[i])))

get_steps(web_check_steps) ==
  IF web_check_steps # <<>>
    THEN get_steps_loop(web_check_steps, 1, <<>>)
    ELSE [failed |-> TRUE,
          msg |-> "The \"steps\" property in scenario is required and not null.",
          steps |-> <<>>]

\* variant of ScanOld without the break: the scan runs on to the last
\* existing step with the url
ScanOld_NoBreak(old_webcheck_steps, new_webcheck_step, j) ==
  LET M == {k \in j..Len(old_webcheck_steps) :
              new_webcheck_step["url"] = old_webcheck_steps[k]["url"]}
  IN  IF M = {} THEN 0 ELSE CHOOSE k \in M : \A m \in M : m <= k

\* the inner loop of get_replace_steps: index of the existing step the scan
\* stops at (break), or 0 when the scan ends with flag = False
RECURSIVE ScanOld(_, _, _)
ScanOld(old_webcheck_steps, new_webcheck_step, j) ==
  IF j > Len(old_webcheck_steps) THEN 0
  ELSE IF new_webcheck_step["url"] = old_webcheck_steps[j]["url"] THEN j
  ELSE ScanOld(old_webcheck_steps, new_webcheck_step, j + 1)

\* the body of the outer loop of get_replace_steps for one desired step
ReplaceStep(old_webcheck_steps, new_webcheck_step, httptestid) ==
  LET j == ScanOld(old_webcheck_steps, new_webcheck_step, 1)
  IN  IF j # 0
        THEN DictMerge(new_webcheck_step,
                       [webstepid  |-> old_webcheck_steps[j]["webstepid"],
                        httptestid |-> httptestid])
        ELSE DictMerge(new_webcheck_step, [httptestid |-> httptestid])

\* WebCheck.get_replace_steps
RECURSIVE get_replace_steps_loop(_, _, _, _, _)
get_replace_steps_loop(old_webcheck_steps, new_webcheck_steps, httptestid, i, acc) ==
  IF i > Len(new_webcheck_steps) THEN acc
  ELSE get_replace_steps_loop(old_webcheck_steps, new_webcheck_steps, httptestid, i + 1,
         Append(acc, ReplaceStep(old_webcheck_steps, new_webcheck_steps[i], httptestid)))

\* variant of get_replace_steps that keeps the existing steps no desired
\* step matched (a merge by union)
get_replace_steps_Union(old_webcheck_steps, new_webcheck_steps, httptestid) ==
  LET Unmatched(o) == \A i \in DOMAIN new_webcheck_steps :
                         new_webcheck_steps[i]["url"] # o["url"]
  IN  get_replace_steps_loop(old_webcheck_steps, new_webcheck_steps, httptestid, 1, <<>>)
        \o SelectSeq(old_webcheck_steps, Unmatched)

get_replace_steps(old_webcheck_steps, new_webcheck_steps, httptestid) ==
  get_replace_steps_loop(old_webcheck_steps, new_webcheck_steps, httptestid, 1, <<>>)

\* WebCheck.get_web_check_params after the call of get_steps: steps is the
\* normalized list, old_steps the existing steps as an ordered list, and
\* httptestid is NoId on the create path
get_web_check_params(web_check_name, host_id_, application_id_, steps, optional_scenario_values, old_steps, httptestid) ==
  LET sent == IF httptestid # NoId /\ old_steps # <<>>
                THEN get_replace_steps(old_steps, steps, httptestid)
                ELSE steps
      web_check_params_ == [name          |-> web_check_name,
                            applicationid |-> application_id_,
                            hostid        |-> host_id_,
                            steps         |-> sent]
      with_id == IF httptestid # NoId
                   THEN DictMerge(web_check_params_, [httptestid |-> httptestid])
                   ELSE web_check_params_
  IN  DictMerge(with_id, optional_scenario_values)

\* all orderings of a sequence (a Python 2 dict's values() has no fixed order)
Perms(s) ==
  {t \in [DOMAIN s -> Range(s)] :
     \E f \in [DOMAIN s -> DOMAIN s] :
        /\ \A i, j \in DOMAIN s : i # j => f[i] # f[j]
        /\ \A i \in DOMAIN s : t[i] = s[f[i]]}

\* --------------------------------------------------------------- variables
VARIABLES
  \* the Zabbix server
  hosts, applications, webchecks, nextid, steps_shape,
  \* the runtime environment
  HAS_ZABBIX_API,
  \* one pass of main() per p in Procs
  pc, state, check_mode, web_check, host_id, web_check_obj, application_id,
  web_check_params, outcome, calls,
  \* the step functions applied on their own
  fn_pc, fn_raw, fn_old, fn_steps, fn_out

remote == <<hosts, applications, webchecks, nextid>>
env    == <<steps_shape, HAS_ZABBIX_API>>
params == <<state, check_mode, web_check>>
fnvars == <<fn_pc, fn_raw, fn_old, fn_steps, fn_out>>
vars   == <<hosts, applications, webchecks, nextid, steps_shape, HAS_ZABBIX_API,
            pc, state, check_mode, web_check, host_id, web_check_obj,
            application_id, web_check_params, outcome, calls,
            fn_pc, fn_raw, fn_old, fn_steps, fn_out>>

\* ------------------------------------------------------------------ inputs
\* sequences over S of length 0..n
RECURSIVE SeqsUpTo(_, _)
SeqsUpTo(S, n) ==
  IF n = 0 THEN {<<>>}
  ELSE LET shorter == SeqsUpTo(S, n - 1)
       IN  shorter \cup {Append(t, x) : t \in {u \in shorter : Len(u) = n - 1}, x \in S}

\* caller-supplied steps of a pass: two accepted steps with different urls
\* and the step of the spec's validation example (empty url)
RawSteps ==
  { [name |-> "s1", url |-> "a", number |-> "1"],
    [name |-> "s2", url |-> "b", number |-> "2", status_codes |-> "200"],
    [name |-> "s1", url |-> "",  number |-> "1"] }

\* a value of a top-level field: key missing, empty, or set
NoKey == "<no key>"
FieldValues(v) == {NoKey, "", v}

\* the web_check payload with the keys that are supplied
MkWebCheck(name, host, app, has_steps, steps) ==
  LET named == [k \in {"web_check_name", "host_name", "application_name"} |->
                  CASE k = "web_check_name" -> name
                    [] k = "host_name" -> host
                    [] OTHER -> app]
      strs  == [k \in {k \in DOMAIN named : named[k] # NoKey} |-> named[k]]
  IN  IF has_steps THEN DictMerge(strs, [steps |-> steps]) ELSE strs

WebCheckInputs ==
  {MkWebCheck(n, h, a, TRUE, s) :
      n \in FieldValues("wc"), h \in FieldValues("h"), a \in FieldValues("app"),
      s \in SeqsUpTo(RawSteps, MaxSteps)}
  \cup
  {MkWebCheck(n, h, a, FALSE, <<>>) :
      n \in FieldValues("wc"), h \in FieldValues("h"), a \in FieldValues("app")}

\* ---------------------------------------------------- the server at start
\* identifiers the server has handed out before the first pass
HostId0 == 1
AppId0 == 2
TestId0 == 3
StepId0 == 4

RemoteStep(k, url) ==
  [webstepid |-> StepId0 + k, httptestid |-> TestId0,
   name |-> IF k = 0 THEN "s1" ELSE "s2", url |-> url,
   no |-> IF k = 0 THEN "1" ELSE "2"]

RemoteStepLists ==
  { <<>>,
    <<RemoteStep(0, "a")>>,
    <<RemoteStep(0, "a"), RemoteStep(1, "b")>>,
    <<RemoteStep(0, "b"), RemoteStep(1, "a")>>,
    <<RemoteStep(0, "a"), RemoteStep(1, "a")>> }

RemoteWebCheck(steps, appid) ==
  [httptestid |-> TestId0, name |-> "wc", hostid |-> HostId0,
   applicationid |-> appid, steps |-> steps]

\* another web check of the same host, which no pass names
OtherTestId0 == StepId0 + 2

OtherWebCheck(appid) ==
  [httptestid |-> OtherTestId0, name |-> "other", hostid |-> HostId0,
   applicationid |-> appid,
   steps |-> <<[webstepid |-> OtherTestId0 + 1, httptestid |-> OtherTestId0,
                name |-> "s1", url |-> "a", no |-> "1"]>>]

NoOutcome == [failed |-> FALSE, changed |-> FALSE, msg |-> ""]

Init ==
  /\ \/ /\ hosts = <<>>
        /\ applications = <<>>
        /\ webchecks = <<>>
        /\ steps_shape = "list"
     \/ /\ hosts = <<[host |-> "h", hostid |-> HostId0]>>
        /\ applications \in {<<>>, <<[applicationid |-> AppId0, hostid |-> HostId0,
                                      name |-> "app"]>>}
        /\ LET appid == IF applications = <<>> THEN NoId ELSE AppId0
           IN  \/ webchecks = <<OtherWebCheck(appid)>> /\ steps_shape = "list"
               \/ /\ steps_shape \in {"list", "dict"}
                  /\ \E s \in RemoteStepLists :
                       webchecks = <<OtherWebCheck(appid), RemoteWebCheck(s, appid)>>
  /\ nextid = OtherTestId0 + 2
  /\ HAS_ZABBIX_API \in BOOLEAN
  /\ pc = [p \in Procs |-> "idle"]
  /\ state = [p \in Procs |-> None]
  /\ check_mode = [p \in Procs |-> FALSE]
  /\ web_check = [p \in Procs |-> EmptyDict]
  /\ host_id = [p \in Procs |-> NoId]
  /\ web_check_obj = [p \in Procs |-> EmptyDict]
  /\ application_id = [p \in Procs |-> NoId]
  /\ web_check_params = [p \in Procs |-> EmptyDict]
  /\ outcome = [p \in Procs |-> NoOutcome]
  /\ calls = [p \in Procs |-> <<>>]
  /\ fn_pc = "off"
  /\ fn_raw = <<>>
  /\ fn_old = <<>>
  /\ fn_steps = <<>>
  /\ fn_out = <<>>

\* ----------------------------------------------------- ends of the pass
Goto(p, label) ==
  /\ pc' = [pc EXCEPT ![p] = label]
  /\ UNCHANGED outcome

\* AnsibleModule.fail_json: the process exits (SystemExit is not caught by
\* "except Exception")
fail_json(p, msg) ==
  /\ pc' = [pc EXCEPT ![p] = "done"]
  /\ outcome' = [outcome EXCEPT ![p] = [failed |-> TRUE, changed |-> FALSE, msg |-> msg]]

\* AnsibleModule.exit_json
exit_json(p, changed, msg) ==
  /\ pc' = [pc EXCEPT ![p] = "done"]
  /\ outcome' = [outcome EXCEPT ![p] = [failed |-> FALSE, changed |-> changed, msg |-> msg]]

\* the remote client records a call
Record(p, op, ok, arg, res) ==
  calls' = [calls EXCEPT ![p] = Append(@, [op |-> op, ok |-> ok, arg |-> arg, res |-> res])]

\* ------------------------------------------------------ the pass: main()
\* main, lines 323-337: the import guard, the locals, web_check_name.  The
\* first pass takes any input; a later pass is a rerun, with the same input,
\* of a pass that ended without failure.
Start(p) ==
  /\ pc[p] = "idle"
  /\ p > 1 => pc[p - 1] = "done" /\ ~outcome[p - 1].failed
  /\ IF ~HAS_ZABBIX_API
       THEN /\ fail_json(p, "Missing requried zabbix-api module")
            /\ UNCHANGED params
       ELSE \E st \in (IF p = 1 THEN {"present", "absent"} ELSE {state[p - 1]}),
               cm \in (IF p = 1 THEN BOOLEAN ELSE {check_mode[p - 1]}),
               wc \in (IF p = 1 THEN WebCheckInputs ELSE {web_check[p - 1]}) :
              /\ state' = [state EXCEPT ![p] = st]
              /\ check_mode' = [check_mode EXCEPT ![p] = cm]
              /\ web_check' = [web_check EXCEPT ![p] = wc]
              /\ IF "web_check_name" \in DOMAIN wc
                   THEN Goto(p, "login")
                   ELSE fail_json(p, "The \"web_check_name\" property is required and not null.")
  /\ UNCHANGED <<remote, env, host_id, web_check_obj, application_id,
                 web_check_params, calls, fnvars>>

\* main, lines 339-352: login, then host_name
Login(p) ==
  /\ pc[p] = "login"
  /\ \E ok \in BOOLEAN :
       /\ Record(p, "login", ok, <<>>, <<>>)
       /\ IF ~ok
            THEN fail_json(p, "Failed to connect to Zabbix server")
          ELSE IF ~Truthy(get_value_by_key(web_check[p], "host_name"))
            THEN fail_json(p, "The \"host_name\" property is required.")
          ELSE Goto(p, "host_get")
  /\ UNCHANGED <<remote, env, params, host_id, web_check_obj, application_id,
                 web_check_params, fnvars>>

\* variant of get_host_id whose except clause does not end the pass
get_host_id_Swallow(p, next) ==
  LET host_name == web_check[p]["host_name"]
      Match(h) == h["host"] = host_name
      host_list == SelectSeq(hosts, Match)
  IN  \E ok \in BOOLEAN :
        /\ Record(p, "host.get", ok, <<host_name>>,
                  IF ok THEN [i \in DOMAIN host_list |-> host_list[i]["hostid"]] ELSE <<>>)
        /\ IF ~ok
             THEN Goto(p, next) /\ UNCHANGED host_id
           ELSE IF Len(host_list) < 1
             THEN fail_json(p, "Host not found") /\ UNCHANGED host_id
           ELSE /\ host_id' = [host_id EXCEPT ![p] = host_list[1]["hostid"]]
                /\ Goto(p, next)

\* variant of get_host_id without the test of len(host_list)
get_host_id_NoLenTest(p, next) ==
  LET host_name == web_check[p]["host_name"]
      Match(h) == h["host"] = host_name
      host_list == SelectSeq(hosts, Match)
  IN  \E ok \in BOOLEAN :
        /\ Record(p, "host.get", ok, <<host_name>>,
                  IF ok THEN [i \in DOMAIN host_list |-> host_list[i]["hostid"]] ELSE <<>>)
        /\ IF ~ok
             THEN fail_json(p, "Failed to get the host id") /\ UNCHANGED host_id
           ELSE IF Len(host_list) < 1
             THEN Goto(p, next) /\ UNCHANGED host_id
           ELSE /\ host_id' = [host_id EXCEPT ![p] = host_list[1]["hostid"]]
                /\ Goto(p, next)

\* WebCheck.get_host_id
get_host_id(p, next) ==
  LET host_name == web_check[p]["host_name"]
      Match(h) == h["host"] = host_name
      host_list == SelectSeq(hosts, Match)
  IN  \E ok \in BOOLEAN :
        /\ Record(p, "host.get", ok, <<host_name>>,
                  IF ok THEN [i \in DOMAIN host_list |-> host_list[i]["hostid"]] ELSE <<>>)
        /\ IF ~ok
             THEN fail_json(p, "Failed to get the host id") /\ UNCHANGED host_id
           ELSE IF Len(host_list) < 1
             THEN fail_json(p, "Host not found") /\ UNCHANGED host_id
           ELSE /\ host_id' = [host_id EXCEPT ![p] = host_list[1]["hostid"]]
                /\ Goto(p, next)

\* main, line 353
HostGet(p) ==
  /\ pc[p] = "host_get"
  /\ get_host_id(p, "webcheck_get")
  /\ UNCHANGED <<remote, env, params, web_check_obj, application_id,
                 web_check_params, fnvars>>

\* variant of delete_web_check without the check_mode exit
delete_web_check_NoCheckMode(p) ==
  Goto(p, "webcheck_delete")

\* WebCheck.delete_web_check up to the remote call
delete_web_check(p) ==
  IF check_mode[p] THEN exit_json(p, TRUE, "") ELSE Goto(p, "webcheck_delete")

\* variant of BranchOnState that reports a change for a web check that
\* does not exist
BranchOnState_Changed(p, obj) ==
  IF state[p] = "absent"
    THEN IF DOMAIN obj = {}
           THEN exit_json(p, TRUE, "WebCheck does not exist")
           ELSE delete_web_check(p)
  ELSE IF ~Truthy(get_value_by_key(web_check[p], "application_name"))
    THEN fail_json(p, "The \"application_name\" property is required.")
  ELSE Goto(p, "host_get_again")

\* variant of BranchOnState that resolves the application before it looks at
\* the desired state
BranchOnState_ResolveFirst(p, obj) ==
  IF ~Truthy(get_value_by_key(web_check[p], "application_name"))
    THEN fail_json(p, "The \"application_name\" property is required.")
  ELSE Goto(p, "host_get_again")

\* main, lines 358-367: the branch on state, up to the second get_host_id
BranchOnState(p, obj) ==
  IF state[p] = "absent"
    THEN IF DOMAIN obj = {}
           THEN exit_json(p, FALSE, "WebCheck does not exist")
           ELSE delete_web_check(p)
  ELSE IF ~Truthy(get_value_by_key(web_check[p], "application_name"))
    THEN fail_json(p, "The \"application_name\" property is required.")
  ELSE Goto(p, "host_get_again")

\* main, line 356: WebCheck.get_web_check, then the branch on state
WebCheckGet(p) ==
  LET web_check_name == web_check[p]["web_check_name"]
      Match(w) == w["hostid"] = host_id[p] /\ w["name"] = web_check_name
      web_check_list == SelectSeq(webchecks, Match)
      obj == IF Len(web_check_list) > 0 THEN web_check_list[1] ELSE EmptyDict
  IN  /\ pc[p] = "webcheck_get"
      /\ \E ok \in BOOLEAN :
           /\ Record(p, "webcheck.get", ok, <<web_check_name>>,
                     IF ok THEN [i \in DOMAIN web_check_list |->
                                   web_check_list[i]["httptestid"]] ELSE <<>>)
           /\ IF ~ok
                THEN /\ fail_json(p, "Failed to get WebCheck")
                     /\ UNCHANGED web_check_obj
                ELSE /\ web_check_obj' = [web_check_obj EXCEPT ![p] = obj]
                     /\ BranchOnState(p, obj)
      /\ UNCHANGED <<remote, env, params, host_id, application_id,
                     web_check_params, fnvars>>

\* variant of HostGetAgain whose remote call never returns
HostGetAgain_Hang(p) ==
  /\ pc[p] = "host_get_again"
  /\ UNCHANGED vars

\* main, line 369
HostGetAgain(p) ==
  /\ pc[p] = "host_get_again"
  /\ get_host_id(p, "application_get")
  /\ UNCHANGED <<remote, env, params, web_check_obj, application_id,
                 web_check_params, fnvars>>

\* web_check_obj['steps'] as the ordered list old_steps: the list itself, or
\* list(dict.values()) in some order; a false value (None, [], {}) is <<>>.
\* The server returns a list or a dict, so the branch old_steps = None of
\* get_web_check_params (a true value of another type) is never taken.
OldStepsOrders(obj) ==
  IF obj["steps"] = <<>> THEN {<<>>}
  ELSE IF steps_shape = "list" THEN {obj["steps"]}
  ELSE Perms(obj["steps"])

\* WebCheck.create_web_check up to the remote call
create_web_check(p, application_id_, steps, scenario_optional_properties) ==
  /\ web_check_params' = [web_check_params EXCEPT ![p] =
        get_web_check_params(web_check[p]["web_check_name"], host_id[p], application_id_,
                             steps, scenario_optional_properties, <<>>, NoId)]
  /\ IF check_mode[p] THEN exit_json(p, TRUE, "") ELSE Goto(p, "webcheck_create")

\* WebCheck.update_web_check up to the remote call
update_web_check(p, application_id_, steps, scenario_optional_properties) ==
  LET httptestid == web_check_obj[p]["httptestid"]
  IN  /\ \E old_steps \in OldStepsOrders(web_check_obj[p]) :
           web_check_params' = [web_check_params EXCEPT ![p] =
             get_web_check_params(web_check[p]["web_check_name"], host_id[p],
                                  application_id_, steps, scenario_optional_properties,
                                  old_steps, httptestid)]
      /\ IF check_mode[p] THEN exit_json(p, TRUE, "") ELSE Goto(p, "webcheck_update")

\* variant of CreateOrUpdate that never takes the update branch
CreateOrUpdate_AlwaysCreate(p, application_id_) ==
  LET web_check_steps == IF "steps" \in DOMAIN web_check[p] THEN web_check[p]["steps"]
                         ELSE <<>>
      scenario_optional_properties ==
        CopyOptional(web_check[p], web_scenario_optional_properties_list, 1)
      normalized == get_steps(web_check_steps)
  IN  IF normalized.failed
        THEN fail_json(p, normalized.msg) /\ UNCHANGED web_check_params
      ELSE create_web_check(p, application_id_, normalized.steps,
                            scenario_optional_properties)

\* main, lines 372-387, with the call of get_steps that opens
\* get_web_check_params
CreateOrUpdate(p, application_id_) ==
  LET web_check_steps == IF "steps" \in DOMAIN web_check[p] THEN web_check[p]["steps"]
                         ELSE <<>>
      scenario_optional_properties ==
        CopyOptional(web_check[p], web_scenario_optional_properties_list, 1)
      normalized == get_steps(web_check_steps)
  IN  IF normalized.failed
        THEN fail_json(p, normalized.msg) /\ UNCHANGED web_check_params
      ELSE IF DOMAIN web_check_obj[p] = {}
        THEN create_web_check(p, application_id_, normalized.steps,
                              scenario_optional_properties)
      ELSE update_web_check(p, application_id_, normalized.steps,
                            scenario_optional_properties)

\* WebCheck.create_application up to the remote call
create_application(p) ==
  IF check_mode[p] THEN exit_json(p, TRUE, "") ELSE Goto(p, "application_create")

\* WebCheck.get_application_id up to the call of create_application
ApplicationGet(p) ==
  LET application_name == web_check[p]["application_name"]
      Match(a) == a["hostid"] = host_id[p] /\ a["name"] = application_name
      application_list == SelectSeq(applications, Match)
  IN  /\ pc[p] = "application_get"
      /\ \E ok \in BOOLEAN :
           /\ Record(p, "application.get", ok, <<application_name>>,
                     IF ok THEN [i \in DOMAIN application_list |->
                                   application_list[i]["applicationid"]] ELSE <<>>)
           /\ IF ~ok
                THEN /\ fail_json(p, "Failed to get the application id")
                     /\ UNCHANGED <<application_id, web_check_params>>
              ELSE IF Len(application_list) < 1
                THEN /\ create_application(p)
                     /\ UNCHANGED <<application_id, web_check_params>>
              ELSE /\ application_id' = [application_id EXCEPT ![p] =
                                           application_list[1]["applicationid"]]
                   /\ CreateOrUpdate(p, application_list[1]["applicationid"])
      /\ UNCHANGED <<remote, env, params, host_id, web_check_obj, fnvars>>

\* variant of CreatedApplicationId that leaves application_id at None
CreatedApplicationId_None(applicationids) ==
  NoId

\* get_application_id, lines 159-160: the identifier taken from the result
\* {'applicationids': [...]} of application.create
CreatedApplicationId(applicationids) ==
  IF Cardinality(DOMAIN applicationids) > 0 THEN applicationids["applicationids"][1]
  ELSE NoId

\* variant of create_application_except that goes back to the lookup of
\* get_application_id
create_application_except_Retry(p) ==
  Goto(p, "application_get")

\* WebCheck.create_application, lines 262-263: the except clause
create_application_except(p) ==
  fail_json(p, "Failed to create Application")

\* WebCheck.create_application, the remote call, and the rest of
\* get_application_id
ApplicationCreate(p) ==
  LET application_name == web_check[p]["application_name"]
      exists == \E a \in Range(applications) :
                   a["hostid"] = host_id[p] /\ a["name"] = application_name
  IN  /\ pc[p] = "application_create"
      /\ \E ok \in BOOLEAN :
           /\ ok => ~exists
           /\ Record(p, "application.create", ok, <<application_name>>,
                     IF ok THEN <<nextid>> ELSE <<>>)
           /\ IF ~ok
                THEN /\ create_application_except(p)
                     /\ UNCHANGED <<applications, nextid, application_id, web_check_params>>
                ELSE /\ applications' = Append(applications,
                           [applicationid |-> nextid, hostid |-> host_id[p],
                            name |-> application_name])
                     /\ nextid' = nextid + 1
                     /\ application_id' = [application_id EXCEPT ![p] =
                                           CreatedApplicationId([applicationids |-> <<nextid>>])]
                     /\ CreateOrUpdate(p, CreatedApplicationId([applicationids |-> <<nextid>>]))
      /\ UNCHANGED <<hosts, webchecks, env, params, host_id, web_check_obj, fnvars>>

\* The server: every remote call may raise (ok = FALSE) and then changes
\* nothing.  A create of an application or web check that exists, an update
\* or delete of a web check that does not, and an update whose steps repeat a
\* webstepid always raise.  The server gives every step without a webstepid
\* a fresh one.
RECURSIVE StoreSteps(_, _, _)
StoreSteps(steps, httptestid, fresh) ==
  IF steps = <<>> THEN <<>>
  ELSE LET step == Head(steps)
       IN  IF "webstepid" \in DOMAIN step
             THEN <<step>> \o StoreSteps(Tail(steps), httptestid, fresh)
             ELSE <<DictMerge(step, [webstepid |-> fresh, httptestid |-> httptestid])>>
                  \o StoreSteps(Tail(steps), httptestid, fresh + 1)

\* variant of WebCheckCreate that looks the web check up again and leaves
\* without a call when it is there by now
WebCheckCreate_Recheck(p) ==
  LET web_check_params_ == web_check_params[p]
      exists == \E w \in Range(webchecks) :
                   /\ w["hostid"] = web_check_params_["hostid"]
                   /\ w["name"] = web_check_params_["name"]
      stored == DictMerge(web_check_params_,
                          [httptestid |-> nextid,
                           steps |-> StoreSteps(web_check_params_["steps"], nextid, nextid + 1)])
  IN  /\ pc[p] = "webcheck_create"
      /\ IF exists
           THEN /\ exit_json(p, FALSE, "")
                /\ UNCHANGED <<webchecks, nextid, calls>>
           ELSE \E ok \in BOOLEAN :
                  /\ Record(p, "webcheck.create", ok, <<web_check_params_>>,
                            IF ok THEN <<nextid>> ELSE <<>>)
                  /\ IF ~ok
                       THEN /\ fail_json(p, "Failed to create WebCheck")
                            /\ UNCHANGED <<webchecks, nextid>>
                       ELSE /\ webchecks' = Append(webchecks, stored)
                            /\ nextid' = nextid + 1 + Len(web_check_params_["steps"])
                            /\ exit_json(p, TRUE, "Successfully added WebCheck")
      /\ UNCHANGED <<hosts, applications, env, params, host_id, web_check_obj,
                     application_id, web_check_params, fnvars>>

\* WebCheck.create_web_check, the remote call
WebCheckCreate(p) ==
  LET web_check_params_ == web_check_params[p]
      exists == \E w \in Range(webchecks) :
                   /\ w["hostid"] = web_check_params_["hostid"]
                   /\ w["name"] = web_check_params_["name"]
      stored == DictMerge(web_check_params_,
                          [httptestid |-> nextid,
                           steps |-> StoreSteps(web_check_params_["steps"], nextid, nextid + 1)])
  IN  /\ pc[p] = "webcheck_create"
      /\ \E ok \in BOOLEAN :
           /\ ok => ~exists
           /\ Record(p, "webcheck.create", ok, <<web_check_params_>>,
                     IF ok THEN <<nextid>> ELSE <<>>)
           /\ IF ~ok
                THEN /\ fail_json(p, "Failed to create WebCheck")
                     /\ UNCHANGED <<webchecks, nextid>>
                ELSE /\ webchecks' = Append(webchecks, stored)
                     /\ nextid' = nextid + 1 + Len(web_check_params_["steps"])
                     /\ exit_json(p, TRUE, "Successfully added WebCheck")
      /\ UNCHANGED <<hosts, applications, env, params, host_id, web_check_obj,
                     application_id, web_check_params, fnvars>>

\* WebCheck.update_web_check, the remote call
WebCheckUpdate(p) ==
  LET web_check_params_ == web_check_params[p]
      sent == web_check_params_["steps"]
      exists == \E w \in Range(webchecks) : w["httptestid"] = web_check_params_["httptestid"]
      repeats == \E i, j \in DOMAIN sent :
                    /\ i # j
                    /\ "webstepid" \in DOMAIN sent[i]
                    /\ "webstepid" \in DOMAIN sent[j]
                    /\ sent[i]["webstepid"] = sent[j]["webstepid"]
      fresh == Cardinality({i \in DOMAIN sent : "webstepid" \notin DOMAIN sent[i]})
      stored(w) == DictMerge(w, DictMerge(web_check_params_,
                      [steps |-> StoreSteps(sent, web_check_params_["httptestid"], nextid)]))
  IN  /\ pc[p] = "webcheck_update"
      /\ \E ok \in BOOLEAN :
           /\ ok => (exists /\ ~repeats)
           /\ Record(p, "webcheck.update", ok, <<web_check_params_>>, <<>>)
           /\ IF ~ok
                THEN /\ fail_json(p, "Failed to updated WebCheck")
                     /\ UNCHANGED <<webchecks, nextid>>
                ELSE /\ webchecks' = [i \in DOMAIN webchecks |->
                           IF webchecks[i]["httptestid"] = web_check_params_["httptestid"]
                             THEN stored(webchecks[i]) ELSE webchecks[i]]
                     /\ nextid' = nextid + fresh
                     /\ exit_json(p, TRUE, "Successfully updated WebCheck")
      /\ UNCHANGED <<hosts, applications, env, params, host_id, web_check_obj,
                     application_id, web_check_params, fnvars>>

\* WebCheck.delete_web_check, the remote call
WebCheckDelete(p) ==
  LET webCheckId == web_check_obj[p]["httptestid"]
      exists == \E w \in Range(webchecks) : w["httptestid"] = webCheckId
      Keep(w) == w["httptestid"] # webCheckId
  IN  /\ pc[p] = "webcheck_delete"
      /\ \E ok \in BOOLEAN :
           /\ ok => exists
           /\ Record(p, "webcheck.delete", ok, <<webCheckId>>, <<>>)
           /\ IF ~ok
                THEN /\ fail_json(p, "Failed to delete WebCheck")
                     /\ UNCHANGED webchecks
                ELSE /\ webchecks' = SelectSeq(webchecks, Keep)
                     /\ exit_json(p, TRUE, "Successfully deleted WebCheck")
      /\ UNCHANGED <<hosts, applications, nextid, env, params, host_id, web_check_obj,
                     application_id, web_check_params, fnvars>>

Next ==
  \E p \in Procs :
     \/ Start(p)
     \/ Login(p)
     \/ HostGet(p)
     \/ WebCheckGet(p)
     \/ HostGetAgain(p)
     \/ ApplicationGet(p)
     \/ ApplicationCreate(p)
     \/ WebCheckCreate(p)
     \/ WebCheckUpdate(p)
     \/ WebCheckDelete(p)

Spec == Init /\ [][Next]_vars

\* the steps of a pass that has started
PassStep(p) ==
  \/ Login(p)
  \/ HostGet(p)
  \/ WebCheckGet(p)
  \/ HostGetAgain(p)
  \/ ApplicationGet(p)
  \/ ApplicationCreate(p)
  \/ WebCheckCreate(p)
  \/ WebCheckUpdate(p)
  \/ WebCheckDelete(p)

\* one pass on its own, from every remote state and with every input
NextLive == Start(1) \/ \E p \in Procs : PassStep(p)

\* main runs straight through: a pass that has started takes its next step,
\* and every remote call returns or raises (the client is given a timeout,
\* line 342).  Whether the pass is started at all is left open.
SpecLive == Init /\ [][NextLive]_vars /\ \A p \in Procs : WF_vars(PassStep(p))

\* ------------------------------------------------- passes run side by side
\* Several playbook runs call the module for the same host at the same time:
\* every pass is its own process and the server takes their calls in any
\* order.  The input is complete, with one step, and names the same host,
\* application and web check in every pass.
ConcInputs ==
  {MkWebCheck("wc", "h", "app", TRUE, <<s>>) : s \in RawSteps}

\* the server has the host and another web check; the application is there
\* or not, the named web check is not
InitConc ==
  /\ hosts = <<[host |-> "h", hostid |-> HostId0]>>
  /\ applications \in {<<>>, <<[applicationid |-> AppId0, hostid |-> HostId0,
                                name |-> "app"]>>}
  /\ webchecks = <<OtherWebCheck(IF applications = <<>> THEN NoId ELSE AppId0)>>
  /\ steps_shape = "list"
  /\ nextid = OtherTestId0 + 2
  /\ HAS_ZABBIX_API = TRUE
  /\ pc = [p \in Procs |-> "idle"]
  /\ state = [p \in Procs |-> None]
  /\ check_mode = [p \in Procs |-> FALSE]
  /\ web_check = [p \in Procs |-> EmptyDict]
  /\ host_id = [p \in Procs |-> NoId]
  /\ web_check_obj = [p \in Procs |-> EmptyDict]
  /\ application_id = [p \in Procs |-> NoId]
  /\ web_check_params = [p \in Procs |-> EmptyDict]
  /\ outcome = [p \in Procs |-> NoOutcome]
  /\ calls = [p \in Procs |-> <<>>]
  /\ fn_pc = "off"
  /\ fn_raw = <<>>
  /\ fn_old = <<>>
  /\ fn_steps = <<>>
  /\ fn_out = <<>>

\* main, lines 323-337, of a pass that starts whatever the other passes do
StartConc(p) ==
  /\ pc[p] = "idle"
  /\ IF ~HAS_ZABBIX_API
       THEN /\ fail_json(p, "Missing requried zabbix-api module")
            /\ UNCHANGED params
       ELSE \E st \in {"present", "absent"}, wc \in ConcInputs :
              /\ state' = [state EXCEPT ![p] = st]
              /\ check_mode' = [check_mode EXCEPT ![p] = FALSE]
              /\ web_check' = [web_check EXCEPT ![p] = wc]
              /\ IF "web_check_name" \in DOMAIN wc
                   THEN Goto(p, "login")
                   ELSE fail_json(p, "The \"web_check_name\" property is required and not null.")
  /\ UNCHANGED <<remote, env, host_id, web_check_obj, application_id,
                 web_check_params, calls, fnvars>>

NextConc == \E p \in Procs : StartConc(p) \/ PassStep(p)

SpecConc == InitConc /\ [][NextConc]_vars

\* ------------------------------------------ the step functions on their own
\* caller-supplied steps: every name, url and number, accepted or not, and
\* steps with optional properties, one of them None, and with a key that is
\* not in the whitelist
FnRawSteps ==
  { [name |-> n, url |-> u, number |-> no] :
      n \in {"s1", "s2"}, u \in {"a", "b"}, no \in {"1", "2"} }
  \cup
  { [name |-> "s1", url |-> "", number |-> "1"],
    [name |-> "", url |-> "a", number |-> "1"],
    [url |-> "a", number |-> "1"],
    [name |-> "s1", url |-> "a"],
    [name |-> "s1", url |-> "b", number |-> "1", timeout |-> "5", posts |-> None],
    [name |-> "s2", url |-> "a", number |-> "2", required |-> "ok",
     follow_redirects |-> "1"] }

\* existing steps as the server returns them: the k-th has the k-th identifier
FnOldStep(k, url) ==
  [webstepid |-> StepId0 + k, httptestid |-> TestId0, name |-> "s1", url |-> url,
   no |-> "1"]

FnOldLists ==
  UNION { { [k \in 1..n |-> FnOldStep(k, urls[k])] : urls \in [1..n -> {"a", "b", "c"}] } :
          n \in 0..MaxFnSteps }

InitFn ==
  /\ hosts = <<>>
  /\ applications = <<>>
  /\ webchecks = <<>>
  /\ steps_shape = "list"
  /\ nextid = OtherTestId0 + 2
  /\ HAS_ZABBIX_API = TRUE
  /\ pc = [p \in Procs |-> "off"]
  /\ state = [p \in Procs |-> None]
  /\ check_mode = [p \in Procs |-> FALSE]
  /\ web_check = [p \in Procs |-> EmptyDict]
  /\ host_id = [p \in Procs |-> NoId]
  /\ web_check_obj = [p \in Procs |-> EmptyDict]
  /\ application_id = [p \in Procs |-> NoId]
  /\ web_check_params = [p \in Procs |-> EmptyDict]
  /\ outcome = [p \in Procs |-> NoOutcome]
  /\ calls = [p \in Procs |-> <<>>]
  /\ fn_pc = "raw"
  /\ fn_raw \in SeqsUpTo(FnRawSteps, MaxFnSteps)
  /\ fn_old \in FnOldLists
  /\ fn_steps = <<>>
  /\ fn_out = <<>>

\* steps = self.get_steps(web_check_steps)
FnGetSteps ==
  /\ fn_pc = "raw"
  /\ LET r == get_steps(fn_raw)
     IN  /\ fn_steps' = r.steps
         /\ fn_pc' = IF r.failed THEN "rejected" ELSE "normalized"
  /\ UNCHANGED <<remote, env, params, pc, host_id, web_check_obj, application_id,
                 web_check_params, outcome, calls, fn_raw, fn_old, fn_out>>

\* steps = self.get_replace_steps(old_steps, steps, httptestid)
FnGetReplaceSteps ==
  /\ fn_pc = "normalized"
  /\ fn_out' = get_replace_steps(fn_old, fn_steps, TestId0)
  /\ fn_pc' = "replaced"
  /\ UNCHANGED <<remote, env, params, pc, host_id, web_check_obj, application_id,
                 web_check_params, outcome, calls, fn_raw, fn_old, fn_steps>>

NextFn == FnGetSteps \/ FnGetReplaceSteps

SpecFn == InitFn /\ [][NextFn]_vars

\* ------------------------------------------------------------ properties
WebCheckMutations == {"webcheck.create", "webcheck.update", "webcheck.delete"}
Mutations == WebCheckMutations \cup {"application.create"}

CallsOf(p, ops) == {i \in DOMAIN calls[p] : calls[p][i].op \in ops}
AllOk(p) == \A i \in DOMAIN calls[p] : calls[p][i].ok
Done(p) == pc[p] = "done"
Looked(p) == CallsOf(p, {"webcheck.get"}) # {}

\* the identifiers the web-check lookup of pass p returned
Existing(p) == calls[p][CHOOSE i \in CallsOf(p, {"webcheck.get"}) : TRUE].res

\* the desired spec carries every field its desired state needs
FieldSet(p, key) == key \in DOMAIN web_check[p] /\ Truthy(web_check[p][key])
StepsValid(p) ==
  /\ "steps" \in DOMAIN web_check[p]
  /\ web_check[p]["steps"] # <<>>
  /\ \A i \in DOMAIN web_check[p]["steps"] :
        \A k \in {"name", "url", "number"} :
           /\ k \in DOMAIN web_check[p]["steps"][i]
           /\ Truthy(web_check[p]["steps"][i][k])
InputValid(p) ==
  /\ FieldSet(p, "web_check_name")
  /\ FieldSet(p, "host_name")
  /\ state[p] = "present" => FieldSet(p, "application_name") /\ StepsValid(p)

\* C1: the web-check mutation a pass issues is the one its (existing remote
\* state, desired state) calls for: create on (absent, present), update on
\* (present, present), delete of the existing identifier on (present, absent);
\* a pass that is not a dry run, has valid input and meets no failing call ends
\* with exactly that one mutation and changed=true, or with no mutation on
\* (absent, absent); no pass issues two web-check mutations.
C1_MutationByState ==
  \A p \in Procs :
    /\ Cardinality(CallsOf(p, WebCheckMutations)) <= 1
    /\ \A i \in CallsOf(p, WebCheckMutations) :
         /\ Looked(p)
         /\ calls[p][i].op = "webcheck.create" => state[p] = "present" /\ Existing(p) = <<>>
         /\ calls[p][i].op = "webcheck.update" => state[p] = "present" /\ Existing(p) # <<>>
         /\ calls[p][i].op = "webcheck.delete" =>
              /\ state[p] = "absent"
              /\ Existing(p) # <<>>
              /\ calls[p][i].arg = <<Existing(p)[1]>>
    /\ (Done(p) /\ Looked(p) /\ ~check_mode[p] /\ AllOk(p) /\ InputValid(p)) =>
         IF state[p] = "absent" /\ Existing(p) = <<>>
           THEN CallsOf(p, WebCheckMutations) = {}
           ELSE /\ Cardinality(CallsOf(p, WebCheckMutations)) = 1
                /\ outcome[p].changed
                /\ ~outcome[p].failed

C1_Witness ==
  \E p \in Procs :
    /\ Done(p) /\ Looked(p) /\ ~check_mode[p] /\ AllOk(p) /\ InputValid(p)
    /\ Existing(p) # <<>>
    /\ CallsOf(p, {"webcheck.delete"}) # {}
    /\ outcome[p].changed

\* the steps the server holds for the web check pass p named
RemoteSteps(p) ==
  LET Match(w) == w["hostid"] = host_id[p] /\ w["name"] = web_check[p]["web_check_name"]
  IN  SelectSeq(webchecks, Match)[1]["steps"]

\* C2: idempotence: of two passes run in succession with the same desired
\* spec (state=present), the second starting from the remote state the first
\* left, the first reports changed, the second reports changed=false, and the
\* remote step list after the second is the one the first left.
C2_Idempotent ==
  \A p \in Procs :
    (/\ p + 1 \in Procs
     /\ Done(p) /\ Done(p + 1)
     /\ state[p] = "present" /\ ~check_mode[p] /\ InputValid(p)
     /\ AllOk(p) /\ AllOk(p + 1)
     /\ ~outcome[p].failed /\ ~outcome[p + 1].failed) =>
       /\ outcome[p].changed
       /\ ~outcome[p + 1].changed
       /\ RemoteSteps(p + 1) = web_check_obj[p + 1]["steps"]

\* the existing steps with the url of step
SameUrl(old_steps, step) == {j \in DOMAIN old_steps : old_steps[j]["url"] = step["url"]}
Least(S) == CHOOSE j \in S : \A k \in S : j <= k

\* C3: step identity preservation: every reconciled step whose url is the
\* url of some existing step carries the webstepid of the first existing step
\* with that url, and every other reconciled step carries no webstepid;
\* names and sequence numbers play no part.
C3_StepIdentity ==
  fn_pc = "replaced" =>
    \A i \in DOMAIN fn_out :
      IF SameUrl(fn_old, fn_out[i]) # {}
        THEN /\ "webstepid" \in DOMAIN fn_out[i]
             /\ fn_out[i]["webstepid"] = fn_old[Least(SameUrl(fn_old, fn_out[i]))]["webstepid"]
        ELSE "webstepid" \notin DOMAIN fn_out[i]

\* a desired step matches two existing steps and differs from them in name
\* and number, and another desired step matches none
C3_Witness ==
  /\ fn_pc = "replaced"
  /\ \E i, k \in DOMAIN fn_out :
       /\ Cardinality(SameUrl(fn_old, fn_out[i])) = 2
       /\ fn_out[i]["name"] # fn_old[1]["name"]
       /\ fn_out[i]["no"] # fn_old[1]["no"]
       /\ fn_out[i]["webstepid"] = fn_old[1]["webstepid"]
       /\ SameUrl(fn_old, fn_out[k]) = {}
       /\ fn_out[k]["name"] = fn_old[1]["name"]

\* C4: full replace: the reconciled list has one entry per desired step, in
\* the desired order, each with the desired step's name, url and number, and
\* no entry for an existing url the desired list leaves out.
C4_FullReplace ==
  fn_pc = "replaced" =>
    /\ Len(fn_out) = Len(fn_raw)
    /\ \A i \in DOMAIN fn_out :
         /\ fn_out[i]["name"] = fn_raw[i]["name"]
         /\ fn_out[i]["url"] = fn_raw[i]["url"]
         /\ fn_out[i]["no"] = fn_raw[i]["number"]
    /\ \A j \in DOMAIN fn_old :
         (\A i \in DOMAIN fn_raw : fn_raw[i]["url"] # fn_old[j]["url"]) =>
           \A i \in DOMAIN fn_out : fn_out[i]["url"] # fn_old[j]["url"]

\* the desired list reverses the existing order, or drops an existing url
C4_Witness ==
  /\ fn_pc = "replaced"
  /\ Len(fn_out) = 2
  /\ Len(fn_old) = 2
  /\ \/ /\ fn_out[1]["url"] = fn_old[2]["url"]
        /\ fn_out[2]["url"] = fn_old[1]["url"]
        /\ fn_old[1]["url"] # fn_old[2]["url"]
     \/ /\ fn_old[1]["url"] = "c"
        /\ SameUrl(fn_old, fn_out[1]) = {2}

\* C5: dry run: a pass in check mode issues no create, update or delete on
\* any collection, and at each point where a mutation is due (the application
\* lookup found none; the web check is to be deleted; the web check is to be
\* created or updated from valid steps) it has ended with changed=true.
C5_DryRun ==
  \A p \in Procs :
    check_mode[p] =>
      /\ CallsOf(p, Mutations) = {}
      /\ pc[p] \notin {"application_create", "webcheck_create", "webcheck_update",
                       "webcheck_delete"}
      /\ \A i \in DOMAIN calls[p] :
           LET c == calls[p][i]
               due == \/ /\ c.op = "application.get"
                         /\ c.res = <<>> \/ StepsValid(p)
                      \/ /\ c.op = "webcheck.get"
                         /\ state[p] = "absent"
                         /\ c.res # <<>>
           IN  (c.ok /\ due) =>
                 /\ i = Len(calls[p])
                 /\ Done(p)
                 /\ outcome[p].changed
                 /\ ~outcome[p].failed

C5_Witness ==
  \E p \in Procs :
    /\ check_mode[p] /\ Done(p) /\ outcome[p].changed
    /\ state[p] = "absent"
    /\ Existing(p) # <<>>
    /\ \E w \in Range(webchecks) : w["httptestid"] = Existing(p)[1]

\* C6: absent on absent: a state=absent pass whose web-check lookup finds no
\* record with the name on the host ends with changed=false and the message
\* "does not exist", and issues no mutating call.
C6_AbsentOnAbsent ==
  \A p \in Procs :
    (/\ state[p] = "absent"
     /\ Looked(p)
     /\ calls[p][Len(calls[p])].ok
     /\ ~\E w \in Range(webchecks) :
           w["hostid"] = host_id[p] /\ w["name"] = web_check[p]["web_check_name"]
     /\ CallsOf(p, {"webcheck.delete"}) = {}) =>
       /\ Done(p)
       /\ outcome[p] = [failed |-> FALSE, changed |-> FALSE, msg |-> "WebCheck does not exist"]
       /\ CallsOf(p, Mutations) = {}

C6_Witness ==
  \E p \in Procs :
    /\ state[p] = "absent" /\ Looked(p) /\ Done(p)
    /\ Existing(p) = <<>>
    /\ web_check[p]["web_check_name"] = "wc"
    /\ outcome[p].msg = "WebCheck does not exist"

\* C7: application auto-creation: an application create call is issued only
\* right after an application lookup that returned no match, at most once in
\* a pass, and before the web-check create or update call, whose applicationid
\* is the identifier that creation returned; after a lookup that returned a
\* match no application create is issued and the web-check call carries the
\* first match's identifier; in a pass that is not a dry run a lookup without
\* a match is followed by the application create.
C7_ApplicationFirst ==
  \A p \in Procs :
    LET gets    == CallsOf(p, {"application.get"})
        creates == CallsOf(p, {"application.create"})
        writes  == CallsOf(p, {"webcheck.create", "webcheck.update"})
    IN  /\ Cardinality(creates) <= 1
        /\ \A j \in creates :
             /\ j > 1
             /\ calls[p][j - 1].op = "application.get"
             /\ calls[p][j - 1].ok
             /\ calls[p][j - 1].res = <<>>
        /\ \A i \in gets :
             /\ (calls[p][i].ok /\ calls[p][i].res # <<>>) => creates = {}
             /\ (calls[p][i].ok /\ calls[p][i].res = <<>> /\ ~check_mode[p]) =>
                  \/ pc[p] = "application_create"
                  \/ creates = {i + 1}
        /\ \A k \in writes :
             /\ gets # {}
             /\ \A i \in gets : i < k
             /\ \A j \in creates :
                  /\ j < k
                  /\ calls[p][j].ok
                  /\ calls[p][k].arg[1]["applicationid"] = calls[p][j].res[1]
                  /\ \E a \in Range(applications) :
                       /\ a["applicationid"] = calls[p][j].res[1]
                       /\ a["name"] = web_check[p]["application_name"]
                       /\ a["hostid"] = calls[p][k].arg[1]["hostid"]
             /\ creates = {} =>
                  \A i \in gets : calls[p][k].arg[1]["applicationid"] = calls[p][i].res[1]

C7_Witness ==
  \E p \in Procs :
    /\ Done(p) /\ ~outcome[p].failed
    /\ CallsOf(p, {"application.create"}) # {}
    /\ CallsOf(p, {"webcheck.update"}) # {}

\* C8: errors are terminal, without rollback: a remote call that raises is
\* the last call of its pass and the pass has ended with a failure; an
\* application the pass created is still there, also when the web-check
\* create or update that followed failed.
C8_ErrorsTerminal ==
  \A p \in Procs :
    /\ \A i \in DOMAIN calls[p] :
         ~calls[p][i].ok =>
           /\ i = Len(calls[p])
           /\ Done(p)
           /\ outcome[p].failed
    /\ \A j \in CallsOf(p, {"application.create"}) :
         calls[p][j].ok =>
           \E a \in Range(applications) : a["applicationid"] = calls[p][j].res[1]

C8_Witness ==
  \E p \in Procs :
    /\ Done(p) /\ outcome[p].failed
    /\ Len(calls[p]) > 1
    /\ calls[p][Len(calls[p])].op = "webcheck.create"
    /\ ~calls[p][Len(calls[p])].ok
    /\ calls[p][Len(calls[p]) - 1].op = "application.create"
    /\ \E a \in Range(applications) :
         a["applicationid"] = calls[p][Len(calls[p]) - 1].res[1]

\* C9: host absence is a hard failure: a host lookup that returns no match
\* is the last call of its pass, the pass has ended with the failure "Host
\* not found", and the host is still absent.
C9_HostAbsent ==
  \A p \in Procs :
    \A i \in CallsOf(p, {"host.get"}) :
      (calls[p][i].ok /\ calls[p][i].res = <<>>) =>
        /\ i = Len(calls[p])
        /\ Done(p)
        /\ outcome[p] = [failed |-> TRUE, changed |-> FALSE, msg |-> "Host not found"]
        /\ \A h \in Range(hosts) : h["host"] # calls[p][i].arg[1]

C9_Witness ==
  \E p \in Procs :
    /\ Done(p)
    /\ state[p] = "present"
    /\ outcome[p].msg = "Host not found"
    /\ hosts = <<>>

\* the failures of the validation of the top-level fields
ValidationMessages ==
  {"The \"web_check_name\" property is required and not null.",
   "The \"host_name\" property is required.",
   "The \"application_name\" property is required."}

\* the calls that use a top-level field
CallsUsing(key) ==
  CASE key = "web_check_name" -> {"webcheck.get", "webcheck.create", "webcheck.update"}
    [] key = "host_name" -> {"host.get"}
    [] OTHER -> {"application.get", "application.create"}

\* C10: required top-level fields: when web_check_name, host_name or (for
\* state=present) application_name is missing or empty, no remote call that
\* uses the field is issued and the pass ends with a failure, which is a
\* validation failure unless a remote call raised or the host was not found
\* before the field was looked at.
C10_RequiredFields ==
  \A p \in Procs :
    \A key \in {"web_check_name", "host_name", "application_name"} :
      (/\ pc[p] \notin {"idle", "off"}
       /\ HAS_ZABBIX_API
       /\ key = "application_name" => state[p] = "present"
       /\ ~FieldSet(p, key)) =>
         /\ CallsOf(p, CallsUsing(key)) = {}
         /\ Done(p) => outcome[p].failed
         /\ (Done(p) /\ AllOk(p) /\ outcome[p].msg # "Host not found") =>
              outcome[p].msg \in ValidationMessages

\* the web checks on the server with the name pass p was given
Named(p) == {w \in Range(webchecks) : w["name"] = web_check[p]["web_check_name"]}

\* C11: delete by name only: a state=absent pass whose payload is only
\* web_check_name, and whose remote calls all succeed, deletes the named web
\* check when the server has it and reports changed=true.
C11_DeleteByNameOnly ==
  \A p \in Procs :
    (/\ Done(p)
     /\ HAS_ZABBIX_API
     /\ state[p] = "absent"
     /\ ~check_mode[p]
     /\ DOMAIN web_check[p] = {"web_check_name"}
     /\ AllOk(p)
     /\ Named(p) # {} \/ CallsOf(p, {"webcheck.delete"}) # {}) =>
       /\ Named(p) = {}
       /\ outcome[p].changed
       /\ ~outcome[p].failed

\* the failures of get_steps
StepValidationMessages ==
  {"The \"name\" property in scenario steps is required and not null.",
   "The \"url\" property in scenario steps is required and not null.",
   "The \"no\" property in scenario steps is required and not null.",
   "The \"steps\" property in scenario is required and not null."}

\* C12: validation precedence for steps: a state=present pass whose step
\* list is empty or absent, or has an entry without a non-empty name, url or
\* number, issues no application create and no web-check create or update,
\* in normal and in dry-run mode, and never ends with a success.
C12_StepsValidatedFirst ==
  \A p \in Procs :
    (/\ pc[p] \notin {"idle", "off"}
     /\ HAS_ZABBIX_API
     /\ state[p] = "present"
     /\ ~StepsValid(p)) =>
       /\ CallsOf(p, {"application.create", "webcheck.create", "webcheck.update"}) = {}
       /\ Done(p) => outcome[p].failed

\* C13: identifier attachment: the parameters of every update call carry the
\* existing web check's httptestid and so does every step in them, also when
\* the existing web check has no steps; the parameters of every create call
\* and their steps carry neither an httptestid nor a webstepid.
C13_IdentifierAttachment ==
  \A p \in Procs :
    \A i \in DOMAIN calls[p] :
      LET c == calls[p][i]
      IN  /\ c.op = "webcheck.update" =>
               /\ "httptestid" \in DOMAIN c.arg[1]
               /\ c.arg[1]["httptestid"] = Existing(p)[1]
               /\ \A k \in DOMAIN c.arg[1]["steps"] :
                    /\ "httptestid" \in DOMAIN c.arg[1]["steps"][k]
                    /\ c.arg[1]["steps"][k]["httptestid"] = Existing(p)[1]
          /\ c.op = "webcheck.create" =>
               /\ "httptestid" \notin DOMAIN c.arg[1]
               /\ \A k \in DOMAIN c.arg[1]["steps"] :
                    /\ "httptestid" \notin DOMAIN c.arg[1]["steps"][k]
                    /\ "webstepid" \notin DOMAIN c.arg[1]["steps"][k]

\* a raw step get_steps accepts
RawStepValid(raw) ==
  \A k \in {"name", "url", "number"} : k \in DOMAIN raw /\ Truthy(raw[k])

\* the whitelisted optional properties a raw step has with a non-None value
OptionalOf(raw) ==
  {k \in Range(scenario_step_optional_properties_list) :
     k \in DOMAIN raw /\ raw[k] # None}

\* C17: step normalization: a non-empty raw step list whose steps all have
\* a non-empty name, url and number is accepted, and its normalized list has
\* the same length and order (no sorting by number); each normalized step
\* has exactly name, url, no and the whitelisted optional properties the raw
\* step has with a non-None value, with the raw step's values.
C17_StepNormalization ==
  /\ (fn_pc = "rejected") =>
       fn_raw = <<>> \/ \E i \in DOMAIN fn_raw : ~RawStepValid(fn_raw[i])
  /\ (fn_pc \in {"normalized", "replaced"}) =>
       /\ Len(fn_steps) = Len(fn_raw)
       /\ \A i \in DOMAIN fn_raw :
            LET raw  == fn_raw[i]
                step == fn_steps[i]
            IN  /\ RawStepValid(raw)
                /\ DOMAIN step = {"name", "url", "no"} \cup OptionalOf(raw)
                /\ step["name"] = raw["name"]
                /\ step["url"] = raw["url"]
                /\ step["no"] = raw["number"]
                /\ \A k \in OptionalOf(raw) : step[k] = raw[k]
                /\ \A k \in DOMAIN step : step[k] # None

\* a list out of number order is normalized, one step with a key outside the
\* whitelist and one with a None-valued optional property
C17_Witness ==
  /\ fn_pc = "normalized"
  /\ Len(fn_raw) = 2
  /\ fn_raw[1]["number"] = "2"
  /\ fn_raw[2]["number"] = "1"
  /\ "follow_redirects" \in DOMAIN fn_raw[1]
  /\ "posts" \in DOMAIN fn_raw[2]
  /\ fn_raw[2]["posts"] = None
  /\ "timeout" \in DOMAIN fn_steps[2]

\* C18: uniqueness of preserved step identifiers: when the existing steps
\* have pairwise distinct webstepids, no two steps of the reconciled list
\* carry the same webstepid; stated for the desired lists whose steps have
\* pairwise distinct names and numbers, the claim's least demanding case.
C18_UniqueStepIds ==
  (/\ fn_pc = "replaced"
   /\ \A i, j \in DOMAIN fn_steps :
        i # j => /\ fn_steps[i]["name"] # fn_steps[j]["name"]
                 /\ fn_steps[i]["no"] # fn_steps[j]["no"]
   /\ \A i, j \in DOMAIN fn_old :
        i # j => fn_old[i]["webstepid"] # fn_old[j]["webstepid"]) =>
    \A i, j \in DOMAIN fn_out :
      (/\ i # j
       /\ "webstepid" \in DOMAIN fn_out[i]
       /\ "webstepid" \in DOMAIN fn_out[j]) =>
        fn_out[i]["webstepid"] # fn_out[j]["webstepid"]

\* the number of calls with an operation of ops in the call log cs
OpCount(cs, ops) == Cardinality({i \in DOMAIN cs : cs[i].op \in ops})

\* C19: frame of state=absent: whatever the remote state, the remote calls of
\* a state=absent pass are the login, at most one host lookup, at most one
\* web-check lookup and at most one web-check delete, never an application
\* lookup or create nor a web-check create or update; a step in which the
\* pass makes a call leaves the hosts and the applications as they are and
\* removes no web check but the one the pass names, and adds or changes none.
C19_AbsentFrame ==
  [][\A p \in Procs :
       state'[p] = "absent" =>
         /\ \A i \in DOMAIN calls'[p] :
              calls'[p][i].op \in {"login", "host.get", "webcheck.get", "webcheck.delete"}
         /\ OpCount(calls'[p], {"host.get"}) <= 1
         /\ OpCount(calls'[p], {"webcheck.get"}) <= 1
         /\ OpCount(calls'[p], {"webcheck.delete"}) <= 1
         /\ calls'[p] # calls[p] =>
              /\ hosts' = hosts
              /\ applications' = applications
              /\ Range(webchecks') \subseteq Range(webchecks)
              /\ \A w \in Range(webchecks) \ Range(webchecks') :
                   /\ "web_check_name" \in DOMAIN web_check'[p]
                   /\ w["name"] = web_check'[p]["web_check_name"]]_vars

\* a state=absent pass has deleted the web check it names and the other web
\* check of the host is still there
C19_Witness ==
  \E p \in Procs :
    /\ state[p] = "absent"
    /\ Done(p)
    /\ \E i \in CallsOf(p, {"webcheck.delete"}) : calls[p][i].ok
    /\ Named(p) = {}
    /\ \E w \in Range(webchecks) : w["name"] = "other"

\* the remote calls pass p has made are within the bounds of one pass
CallsBounded(p) ==
  /\ OpCount(calls[p], {"login"}) <= 1
  /\ OpCount(calls[p], {"host.get"}) <= 2
  /\ OpCount(calls[p], {"webcheck.get"}) <= 1
  /\ OpCount(calls[p], {"application.get"}) <= 1
  /\ OpCount(calls[p], {"application.create"}) <= 1
  /\ OpCount(calls[p], WebCheckMutations) <= 1
  /\ \A i \in DOMAIN calls[p] :
       calls[p][i].op \in {"login", "host.get", "webcheck.get", "application.get"}
                            \cup Mutations

\* C16: every pass terminates with exactly one reported outcome: whatever
\* the remote state, the input, the mode and the calls that fail, a pass that
\* has started reaches its end; it makes the login and at most two host
\* lookups, one web-check lookup, one application lookup, one application
\* create and one web-check mutation; it reports nothing before its end, at
\* its end one of no-op, changed and failure, and nothing after it.
C16_Terminates ==
  /\ [](\A p \in Procs :
          /\ CallsBounded(p)
          /\ ~Done(p) => outcome[p] = NoOutcome
          /\ Done(p) => ~(outcome[p].failed /\ outcome[p].changed))
  /\ [][\A p \in Procs :
          Done(p) => pc'[p] = "done" /\ outcome'[p] = outcome[p] /\ calls'[p] = calls[p]]_vars
  /\ \A p \in Procs : (pc[p] # "idle") ~> Done(p)

\* a pass has ended after every kind of call of a state=present pass: two
\* host lookups, the web-check and application lookups, an application
\* create and a web-check create
C16_Witness ==
  \E p \in Procs :
    /\ Done(p)
    /\ OpCount(calls[p], {"host.get"}) = 2
    /\ OpCount(calls[p], {"application.create"}) = 1
    /\ OpCount(calls[p], {"webcheck.create"}) = 1
    /\ outcome[p].changed

\* C14: application creation race surfaces as failure: among passes that run
\* side by side for the same host and application, a pass whose application
\* lookup returned no match and whose application create is then rejected
\* ends with that call, with the failure "Failed to create Application"; it
\* has looked the application up once and issues no web-check create or
\* update.
C14_CreateRaceFails ==
  \A p \in Procs :
    \A i \in CallsOf(p, {"application.create"}) :
      /\ calls[p][i - 1].op = "application.get"
      /\ calls[p][i - 1].res = <<>>
      /\ ~calls[p][i].ok =>
           /\ i = Len(calls[p])
           /\ Done(p)
           /\ outcome[p] = [failed |-> TRUE, changed |-> FALSE,
                            msg |-> "Failed to create Application"]
           /\ OpCount(calls[p], {"application.get"}) = 1
           /\ CallsOf(p, {"webcheck.create", "webcheck.update"}) = {}

\* two passes both found no application; one created it, the create of the
\* other was rejected and the application is on the server once
C14_Witness ==
  \E p, q \in Procs :
    /\ p # q
    /\ \E i \in CallsOf(p, {"application.create"}) : ~calls[p][i].ok
    /\ \E j \in CallsOf(q, {"application.create"}) : calls[q][j].ok
    /\ Done(p)
    /\ Len(applications) = 1

\* the keys of the parameters of a web-check create or update
WebCheckParamKeys ==
  {"name", "applicationid", "hostid", "steps", "httptestid"}
    \cup Range(web_scenario_optional_properties_list)

\* C15: no coordination between passes that run side by side: a pass looks
\* the web check up once, before its write, and the write follows from that
\* lookup alone: a pass that found no web check and has built its parameters
\* ends with a create call issued, whatever the server holds by then, and the
\* parameters of a create or update carry no version or lock.  (That two
\* passes both find the web check absent and both issue a create is the
\* state C15_Witness.)
C15_NoCoordination ==
  \A p \in Procs :
    /\ OpCount(calls[p], {"webcheck.get"}) <= 1
    /\ \A i \in CallsOf(p, WebCheckMutations) :
         /\ \E j \in CallsOf(p, {"webcheck.get"}) : j < i
         /\ calls[p][i].op \in {"webcheck.create", "webcheck.update"} =>
              DOMAIN calls[p][i].arg[1] \subseteq WebCheckParamKeys
    /\ (/\ Done(p)
        /\ ~check_mode[p]
        /\ Looked(p)
        /\ DOMAIN web_check_params[p] # {}) =>
          IF Existing(p) = <<>>
            THEN CallsOf(p, {"webcheck.create"}) # {}
            ELSE CallsOf(p, {"webcheck.update"}) # {}

\* two passes both found the web check absent and both issued a create
C15_Witness ==
  \E p, q \in Procs :
    /\ p # q
    /\ Looked(p) /\ Existing(p) = <<>>
    /\ Looked(q) /\ Existing(q) = <<>>
    /\ \E i \in CallsOf(p, {"webcheck.create"}) : calls[p][i].ok
    /\ \E j \in CallsOf(q, {"webcheck.create"}) : ~calls[q][j].ok
    /\ Cardinality(Named(p)) = 1

====
